---------------------------- MODULE Spec2Model ----------------------------
(***************************************************************************)
(* Account service of geeksenergy-app: registration, login, profile        *)
(* update/delete and the OTP password-recovery flow of                     *)
(* src/routes/user.routes.js over the User schema of                       *)
(* src/models/user.model.js.                                               *)
(*                                                                         *)
(* Strings are sequences of one-character strings, so that trimming and    *)
(* lower-casing are computed.  Request-body values that reach a strict     *)
(* comparison (the submitted OTP) are tagged with their JavaScript type.   *)
(*                                                                         *)
(* Every handler is cut at its awaits.  Spec and SpecAccounts run one      *)
(* request at a time, the first with the recovery requests in full, the    *)
(* second with the account requests in full; SpecConc lets requests        *)
(* overlap at their awaits.                                                *)
(***************************************************************************)
EXTENDS Integers, Sequences, FiniteSets

VARIABLES
    users,      \* the User collection: a set of documents
    nextId,     \* the next fresh _id the database hands out
    otpStore,   \* own properties of the otpStore object: key -> value
    inflight,   \* each request slot: the handler suspended at an await, or idle
    verified,   \* history: keys whose pending code a verify-otp call accepted
    last        \* what the most recent handler step did and answered

vars == <<users, nextId, otpStore, inflight, verified, last>>

---------------------------------------------------------------------------
(* Bounds of the exploration *)

MaxIds == 2         \* documents ever created
NumCodes == 2       \* distinct values Math.random() is let to produce
MaxInflight == 2    \* requests suspended at an await at the same time (SpecConc)

(* Program constants *)

MinPasswordLen == 5
MinUsernameLen == 3
MinPhoneLen == 10
MinEmailLen == 5
OtpBase == 100000

---------------------------------------------------------------------------
(* Strings *)

Rep(c, n) == [i \in 1..n |-> c]

Sp == " "

RECURSIVE TrimLeft(_)
TrimLeft(s) == IF s # <<>> /\ Head(s) = Sp THEN TrimLeft(Tail(s)) ELSE s

RECURSIVE TrimRight(_)
TrimRight(s) ==
    IF s # <<>> /\ s[Len(s)] = Sp THEN TrimRight(SubSeq(s, 1, Len(s) - 1)) ELSE s

\* String.prototype.trim, as the validators' .trim() and the schema's trim: true
Trim(s) == TrimRight(TrimLeft(s))

LowerChar(c) ==
    CASE c = "A" -> "a"
      [] c = "B" -> "b"
      [] OTHER -> c

\* String.prototype.toLowerCase, as the schema's lowercase: true
Lower(s) == [i \in 1..Len(s) |-> LowerChar(s[i])]

AtPositions(s) == {i \in 1..Len(s) : s[i] = "@"}

\* validator's isEmail: one @, a local part, a dotted domain with a top-level
\* domain of two characters or more, no blank
IsEmail(s) ==
    /\ Cardinality(AtPositions(s)) = 1
    /\ \A i \in 1..Len(s) : s[i] # Sp
    /\ LET at == CHOOSE i \in AtPositions(s) : TRUE
           dots == {i \in (at + 1)..Len(s) : s[i] = "."}
       IN  /\ at > 1
           /\ dots # {}
           /\ \A d \in dots : d > at + 1
           /\ \E d \in dots : (\A e \in dots : e <= d) /\ Len(s) - d >= 2

---------------------------------------------------------------------------
(* Values of the explored requests *)

EmailA == <<"a", "@", "x", ".", "c", "o">>
EmailAUpper == <<"A", "@", "x", ".", "c", "o">>
EmailB == <<"b", "@", "x", ".", "c", "o">>
\* a property name every object inherits from Object.prototype
KeyConstructor == <<"c", "o", "n", "s", "t", "r", "u", "c", "t", "o", "r">>

ProtoKeys == {KeyConstructor}

Emails == {EmailA, EmailAUpper, EmailB, KeyConstructor}

\* the email field of the bodies POSTed to the recovery routes
OtpEmails == {EmailA, EmailAUpper, KeyConstructor}

PwA == Rep("a", 5)
PwAPadded == <<Sp>> \o Rep("a", 5)
PwB == Rep("b", 5)
PwShort == Rep("a", 3)

Passwords == {PwA, PwAPadded, PwB, PwShort}

\* the password field of the bodies POSTed to /users/reset-password
NewPasswords == {PwAPadded, PwB}

NameBob == <<"b", "o", "b">>
NameBobUpper == <<"B", "o", "b">>
NameAmy == <<"a", "m", "y">>
NameAl == <<"a", "l">>

Phone1 == Rep("1", 10)
Phone2 == Rep("2", 10)
PhoneShort == Rep("1", 3)

Dev == <<"d", "e", "v">>

Body(u, e, p, ph, pr) ==
    [username |-> u, email |-> e, password |-> p, phone |-> ph, profession |-> pr]

\* request bodies POSTed to /users/register
RegisterBodies ==
    { Body(NameBob, EmailA, PwA, Phone1, Dev),
      Body(NameAmy, EmailB, PwAPadded, Phone2, Dev),
      Body(NameAmy, EmailAUpper, PwB, Phone2, Dev),
      Body(NameBobUpper, EmailB, PwB, Phone2, Dev),
      Body(NameAmy, EmailB, PwB, Phone1, Dev),
      Body(NameAl, EmailB, PwShort, PhoneShort, <<>>) }

\* request bodies PUT to /users/:id
UpdateBodies ==
    { [username |-> NameAl, phone |-> Phone1, profession |-> <<>>] }

Ids == 1..(MaxIds + 1)

\* the email and phone fields of POST /verify-user, '' when left out
VerifyEmails == {<<>>, EmailA, EmailAUpper, EmailB}
VerifyPhones == {<<>>, Phone1, Phone2}

---------------------------------------------------------------------------
(* JavaScript values that reach otpStore and the strict comparison *)

JsString(n) == [t |-> "string", v |-> n]     \* the decimal digits of n
JsNumber(n) == [t |-> "number", v |-> n]
Undefined == [t |-> "undefined", v |-> 0]
JsFunction == [t |-> "function", v |-> 0]

\* Math.floor(100000 + Math.random() * 900000), over the explored draws
Codes == OtpBase..(OtpBase + NumCodes - 1)

\* Number.prototype.toString
NumberToString(n) == JsString(n)

\* the otp field of a body: a form field, a JSON number, or absent
SubmittedOtps == {JsString(c) : c \in Codes} \cup {JsNumber(OtpBase), Undefined}

\* ToBoolean
Truthy(x) ==
    CASE x.t = "undefined" -> FALSE
      [] x.t = "number" -> x.v # 0
      [] OTHER -> TRUE

\* otpStore[key]: the own property, else the one inherited from Object.prototype
OtpGet(store, key) ==
    IF key \in DOMAIN store THEN store[key]
    ELSE IF key \in ProtoKeys THEN JsFunction
    ELSE Undefined

\* otpStore[key] = value, were it to keep a code that is already pending
OtpSetKeepFirst(store, key, value) ==
    [k \in DOMAIN store \cup {key} |->
        IF k \in DOMAIN store THEN store[k] ELSE value]

\* otpStore[key] = value
OtpSet(store, key, value) ==
    [k \in DOMAIN store \cup {key} |-> IF k = key THEN value ELSE store[k]]

\* delete otpStore[key]
OtpDelete(store, key) == [k \in DOMAIN store \ {key} |-> store[k]]

EmptyStore == [k \in {} |-> Undefined]

---------------------------------------------------------------------------
(* bcrypt *)

\* bcrypt.hash(plaintext, 10): a digest, never the plaintext
Hash(p) == [alg |-> "bcrypt", plain |-> p]

\* bcrypt.compare(plaintext, digest)
Compare(p, h) == h = Hash(p)

---------------------------------------------------------------------------
(* The User model: schema setters, validators and unique indexes *)

\* the query cast of an email path: trim: true, lowercase: true
CastEmail(e) == Lower(Trim(e))

\* User.findOne with a filter that constrains nothing, as { email: undefined }
FindAnyUser(us, e) == us

\* User.findOne({ email })
FindByEmail(us, e) == {u \in us : u.email = CastEmail(e)}

\* the pre-check, were it to look at the phone alone
FindByPhoneOnly(us, e, ph) == {u \in us : u.phone = Trim(ph)}

\* User.findOne({ $or: [{ email }, { phone }] })
FindByEmailOrPhone(us, e, ph) ==
    {u \in us : u.email = CastEmail(e) \/ u.phone = Trim(ph)}

\* User.create, were the password handed over as typed
NewDocPlain(id, b, hashed) ==
    [id |-> id,
     username |-> Lower(Trim(b.username)),
     email |-> Lower(Trim(b.email)),
     password |-> [alg |-> "none", plain |-> b.password],
     phone |-> Trim(b.phone),
     profession |-> Trim(b.profession)]

\* the document User.create builds: every path through its setters
NewDoc(id, b, hashed) ==
    [id |-> id,
     username |-> Lower(Trim(b.username)),
     email |-> Lower(Trim(b.email)),
     password |-> hashed,
     phone |-> Trim(b.phone),
     profession |-> Trim(b.profession)]

\* required and minlength of the schema (the digest is 60 characters long)
SchemaValid(d) ==
    /\ Len(d.username) >= MinUsernameLen
    /\ Len(d.email) >= MinEmailLen
    /\ d.phone # <<>>
    /\ d.profession # <<>>

\* the unique indexes: username and email
UniqueOk(us, d) ==
    \A u \in us : u.id # d.id => (u.username # d.username /\ u.email # d.email)

\* User.updateOne({ email }, { password })
UpdatePasswordByEmail(us, e, hashed) ==
    {IF u \in FindByEmail(us, e) THEN [u EXCEPT !.password = hashed] ELSE u : u \in us}

\* findByIdAndUpdate replacing the document by the update, { overwrite: true }
UpdatedDocOverwrite(u, b) ==
    [id |-> u.id,
     username |-> Lower(Trim(b.username)),
     email |-> <<>>,
     password |-> Hash(<<>>),
     phone |-> Trim(b.phone),
     profession |-> Trim(b.profession)]

\* the update of findByIdAndUpdate: setters run, validators do not
UpdatedDoc(u, b) ==
    [u EXCEPT !.username = Lower(Trim(b.username)),
              !.phone = Trim(b.phone),
              !.profession = Trim(b.profession)]

\* a query without a projection: the document whole
SelectAll(u) == u

\* .select('-password'), the projection '-password'
SelectMinusPassword(u) ==
    [id |-> u.id, username |-> u.username, email |-> u.email,
     phone |-> u.phone, profession |-> u.profession]

---------------------------------------------------------------------------
(* Responses *)

Json(status, message) ==
    [kind |-> "json", status |-> status, view |-> "", body |-> {message}]
Render(view, messages) ==
    [kind |-> "render", status |-> 200, view |-> view, body |-> messages]
Redirect(to) ==
    [kind |-> "redirect", status |-> 302, view |-> "", body |-> {to}]
\* an error handed to Express's error handler
ErrorPage == [kind |-> "error", status |-> 500, view |-> "", body |-> {}]
\* the handler's promise rejected and nothing answered the request
NoResponse == [kind |-> "none", status |-> 0, view |-> "", body |-> {}]
\* the unhandled rejection ended the process
ProcessExit == [kind |-> "exit", status |-> 0, view |-> "", body |-> {}]

RegisterOk == Redirect("/users/login")
RegisterDuplicate == Render("register", {"Email or phone already registered"})
RegisterServerError == Render("register", {"Server error, please try again"})
LoginOk == Json(200, "Login successful")
LoginInvalid == Json(400, "Email or password is incorrect!")
ForgotNotFound == Render("forgot-password", {"Email not found"})
ForgotOk == Render("verify-otp", {})
VerifyOk == Render("reset-password", {})
VerifyInvalid == Render("verify-otp", {"Invalid OTP"})
ResetNoPending == Render("reset-password", {"OTP expired or invalid"})
ResetOk == Redirect("/users/login")
UpdateOk == Json(200, "User updated successfully")
UserNotFound == Json(404, "User not found")
DeleteOk == Json(200, "User deleted successfully")
ServerError == Json(500, "Server error")
ListOk == [kind |-> "json", status |-> 200, view |-> "", body |-> {}]
VerifyUserFound == Render("home", {"User verified!"})
VerifyUserNotFound == Render("home", {"User not found or details incorrect."})

---------------------------------------------------------------------------
(* Pure parts of the handlers *)

\* the register chain, were the password left as typed
SanitizeKeepPassword(b) ==
    [username |-> Trim(b.username), email |-> Trim(b.email),
     password |-> b.password, phone |-> Trim(b.phone),
     profession |-> Trim(b.profession)]

\* the sanitizers of the register chain: body(...).trim()
Sanitize(b) ==
    [username |-> Trim(b.username), email |-> Trim(b.email),
     password |-> Trim(b.password), phone |-> Trim(b.phone),
     profession |-> Trim(b.profession)]

\* validationResult(req) of POST /register
RegisterErrors(b) ==
    LET s == Sanitize(b)
    IN  (IF IsEmail(s.email) THEN {} ELSE {"Enter a valid email"})
        \cup (IF Len(s.password) >= MinPasswordLen THEN {}
              ELSE {"Password must be at least 5 characters"})
        \cup (IF Len(s.username) >= MinUsernameLen THEN {}
              ELSE {"Name must be at least 3 characters"})
        \cup (IF Len(s.phone) >= MinPhoneLen THEN {}
              ELSE {"Phone must be at least 10 digits"})
        \cup (IF s.profession # <<>> THEN {} ELSE {"Profession is required"})

\* POST /login, were it to tell a missing account from a wrong password
LoginResponseTelling(us, e, p) ==
    LET email == Trim(e)
        password == Trim(p)
    IN  IF ~IsEmail(email) THEN Json(400, "Enter valid email")
        ELSE IF Len(password) < MinPasswordLen THEN Json(400, "Enter valid password")
        ELSE IF FindByEmail(us, email) = {} THEN UserNotFound
        ELSE IF ~Compare(password, (CHOOSE u \in FindByEmail(us, email) : TRUE).password)
             THEN LoginInvalid
        ELSE LoginOk

\* the answer of POST /login in a store
LoginResponse(us, e, p) ==
    LET email == Trim(e)
        password == Trim(p)
    IN  IF ~IsEmail(email) THEN Json(400, "Enter valid email")
        ELSE IF Len(password) < MinPasswordLen THEN Json(400, "Enter valid password")
        ELSE IF FindByEmail(us, email) = {} THEN LoginInvalid
        ELSE IF ~Compare(password, (CHOOSE u \in FindByEmail(us, email) : TRUE).password)
             THEN LoginInvalid
        ELSE LoginOk

\* POST /verify-otp, were it to ask only whether a code is pending
VerifyResponseAnyPending(store, e, otp) ==
    IF ~Truthy(OtpGet(store, e)) THEN VerifyInvalid ELSE VerifyOk

\* the answer of POST /verify-otp in a registry
VerifyResponse(store, e, otp) ==
    IF OtpGet(store, e) # otp THEN VerifyInvalid ELSE VerifyOk

\* the guard of POST /reset-password
ResetAllowed(store, e) == Truthy(OtpGet(store, e))

\* a field of req.body taken as a condition: undefined and '' are falsy
Supplied(x) == x # <<>>

\* User.findOne({ $or: [{ email }, { phone }] }) in place of the three filters
VerifyUserEitherField(us, e, ph) ==
    IF FindByEmailOrPhone(us, e, ph) # {} THEN VerifyUserFound ELSE VerifyUserNotFound

\* POST /verify-user: findOne on both fields, else the email, else the phone
VerifyUserResponse(us, e, ph) ==
    LET user == IF Supplied(e) /\ Supplied(ph)
                THEN {u \in us : u.email = CastEmail(e) /\ u.phone = Trim(ph)}
                ELSE IF Supplied(e) THEN FindByEmail(us, e)
                ELSE IF Supplied(ph) THEN {u \in us : u.phone = Trim(ph)}
                ELSE {}
    IN  IF user # {} THEN VerifyUserFound ELSE VerifyUserNotFound

---------------------------------------------------------------------------
(* Request slots *)

Slots == 1..MaxInflight

Idle == [op |-> "idle"]

Busy == {s \in Slots : inflight[s].op # "idle"}

\* a request may start while fewer than limit handlers are suspended
CanBegin(limit) == Cardinality(Busy) < limit

FreeSlot == CHOOSE s \in Slots \ Busy : \A t \in Slots \ Busy : s <= t

Suspend(request) == inflight' = [inflight EXCEPT ![FreeSlot] = request]

Resume(s, request) == inflight' = [inflight EXCEPT ![s] = request]

\* the step of a handler that answers nothing yet
Awaiting == [op |-> "await"]

Init ==
    /\ users = {}
    /\ nextId = 1
    /\ otpStore = EmptyStore
    /\ inflight = [s \in Slots |-> Idle]
    /\ verified = {}
    /\ last = Awaiting

---------------------------------------------------------------------------
(* POST /users/register: validate, pre-check, then hash and create *)

\* ids left for the creates already under way and one more
IdBudget ==
    nextId + Cardinality({s \in Slots : inflight[s].op = "register"}) <= MaxIds

\* up to the await of User.findOne: validation and the read of the pre-check
RegisterBegin(limit, b) ==
    /\ CanBegin(limit)
    /\ IF RegisterErrors(b) # {}
       THEN /\ last' = [op |-> "register", body |-> b,
                        res |-> Render("register", RegisterErrors(b))]
            /\ UNCHANGED inflight
       ELSE LET s == Sanitize(b)
                found == FindByEmailOrPhone(users, s.email, s.phone) # {}
            IN  /\ found \/ IdBudget
                /\ Suspend([op |-> "register", raw |-> b, userExists |-> found])
                /\ last' = Awaiting
    /\ UNCHANGED <<users, nextId, otpStore, verified>>

\* from the pre-check's answer to the response: bcrypt.hash, User.create
RegisterFinish(s) ==
    /\ inflight[s].op = "register"
    /\ LET b == inflight[s].raw
           doc == NewDoc(nextId, Sanitize(b), Hash(Sanitize(b).password))
       IN  IF inflight[s].userExists
           THEN /\ last' = [op |-> "register", body |-> b, res |-> RegisterDuplicate]
                /\ UNCHANGED <<users, nextId>>
           ELSE IF SchemaValid(doc) /\ UniqueOk(users, doc)
           THEN /\ users' = users \cup {doc}
                /\ nextId' = nextId + 1
                /\ last' = [op |-> "register", body |-> b, res |-> RegisterOk]
           ELSE /\ last' = [op |-> "register", body |-> b, res |-> RegisterServerError]
                /\ UNCHANGED <<users, nextId>>
    /\ Resume(s, Idle)
    /\ UNCHANGED <<otpStore, verified>>

---------------------------------------------------------------------------
(* POST /users/login *)

Login(limit, e, p) ==
    /\ CanBegin(limit)
    /\ last' = [op |-> "login", email |-> e, password |-> p,
                res |-> LoginResponse(users, e, p), data |-> {}]
    /\ UNCHANGED <<users, nextId, otpStore, inflight, verified>>

---------------------------------------------------------------------------
(* PUT /users/:id and DELETE /users/:id *)

UpdateUser(limit, id, b) ==
    /\ CanBegin(limit)
    /\ LET hit == {u \in users : u.id = id}
       IN  IF hit = {}
           THEN /\ last' = [op |-> "update", id |-> id, body |-> b, res |-> UserNotFound,
                            data |-> {}]
                /\ UNCHANGED users
           ELSE LET u == CHOOSE x \in hit : TRUE
                    d == UpdatedDoc(u, b)
                IN  IF UniqueOk(users, d)
                    THEN /\ users' = (users \ {u}) \cup {d}
                         /\ last' = [op |-> "update", id |-> id, body |-> b,
                                     res |-> UpdateOk,
                                     data |-> {SelectMinusPassword(d)}]
                    ELSE /\ last' = [op |-> "update", id |-> id, body |-> b,
                                     res |-> ServerError, data |-> {}]
                         /\ UNCHANGED users
    /\ UNCHANGED <<nextId, otpStore, inflight, verified>>

DeleteUser(limit, id) ==
    /\ CanBegin(limit)
    /\ LET hit == {u \in users : u.id = id}
       IN  /\ users' = users \ hit
           /\ last' = [op |-> "delete", id |-> id,
                       res |-> IF hit = {} THEN UserNotFound ELSE DeleteOk]
    /\ UNCHANGED <<nextId, otpStore, inflight, verified>>

---------------------------------------------------------------------------
(* GET /users and POST /users/verify-user *)

ListUsers(limit) ==
    /\ CanBegin(limit)
    /\ last' = [op |-> "list", res |-> ListOk,
                data |-> {SelectMinusPassword(u) : u \in users}]
    /\ UNCHANGED <<users, nextId, otpStore, inflight, verified>>

VerifyUser(limit, e, ph) ==
    /\ CanBegin(limit)
    /\ last' = [op |-> "verifyUser", email |-> e, phone |-> ph,
                res |-> VerifyUserResponse(users, e, ph),
                data |-> {SelectMinusPassword(u) : u \in users}]
    /\ UNCHANGED <<users, nextId, otpStore, inflight, verified>>

---------------------------------------------------------------------------
(* POST /users/forgot-password: look the user up, issue the code, mail it *)

\* up to the await of User.findOne
ForgotBegin(limit, e) ==
    /\ CanBegin(limit)
    /\ Suspend([op |-> "forgot", pc |-> "found", email |-> e,
                user |-> FindByEmail(users, e) # {}, otp |-> Undefined])
    /\ last' = Awaiting
    /\ UNCHANGED <<users, nextId, otpStore, verified>>

\* from the lookup's answer to the await of sendMail
ForgotIssue(s, c) ==
    /\ inflight[s].op = "forgot"
    /\ inflight[s].pc = "found"
    /\ LET e == inflight[s].email
       IN  IF ~inflight[s].user
           THEN /\ last' = [op |-> "forgot", email |-> e, otp |-> Undefined,
                            res |-> ForgotNotFound]
                /\ Resume(s, Idle)
                /\ UNCHANGED <<otpStore, verified>>
           ELSE /\ otpStore' = OtpSet(otpStore, e, NumberToString(c))
                /\ verified' = verified \ {e}
                /\ Resume(s, [inflight[s] EXCEPT !.pc = "mail",
                                                 !.otp = NumberToString(c)])
                /\ last' = [op |-> "issue", email |-> e, otp |-> NumberToString(c),
                            replaced |-> OtpGet(otpStore, e)]
    /\ UNCHANGED <<users, nextId>>

\* sendMail resolved
ForgotMailed(s) ==
    /\ inflight[s].op = "forgot"
    /\ inflight[s].pc = "mail"
    /\ last' = [op |-> "forgot", email |-> inflight[s].email, otp |-> inflight[s].otp,
                res |-> ForgotOk]
    /\ Resume(s, Idle)
    /\ UNCHANGED <<users, nextId, otpStore, verified>>

\* what becomes of a rejection no try/catch of the handler catches: Express 5
\* hands it to its error handler; Express 4 leaves it unhandled, and Node then
\* either only warns (the request is never answered) or ends the process
RejectionOutcomes == {ErrorPage, NoResponse, ProcessExit}

\* sendMail rejected
ForgotMailFailed(s, outcome) ==
    /\ inflight[s].op = "forgot"
    /\ inflight[s].pc = "mail"
    /\ outcome \in RejectionOutcomes
    /\ last' = [op |-> "forgot", email |-> inflight[s].email, otp |-> inflight[s].otp,
                res |-> outcome]
    /\ IF outcome = ProcessExit
       THEN \* the memory of the process is gone with it
            /\ otpStore' = EmptyStore
            /\ inflight' = [t \in Slots |-> Idle]
            /\ verified' = {}
       ELSE /\ Resume(s, Idle)
            /\ UNCHANGED <<otpStore, verified>>
    /\ UNCHANGED <<users, nextId>>

---------------------------------------------------------------------------
(* POST /users/verify-otp *)

VerifyOtp(limit, e, otp) ==
    /\ CanBegin(limit)
    /\ last' = [op |-> "verify", email |-> e, otp |-> otp,
                res |-> VerifyResponse(otpStore, e, otp)]
    /\ verified' = IF VerifyResponse(otpStore, e, otp) = VerifyOk /\ e \in DOMAIN otpStore
                   THEN verified \cup {e}
                   ELSE verified
    /\ UNCHANGED <<users, nextId, otpStore, inflight>>

---------------------------------------------------------------------------
(* POST /users/reset-password: guard, hash, update, consume *)

\* up to the await of bcrypt.hash
ResetBegin(limit, e, p) ==
    /\ CanBegin(limit)
    /\ IF ~ResetAllowed(otpStore, e)
       THEN /\ last' = [op |-> "reset", email |-> e, password |-> p,
                        pending |-> e \in DOMAIN otpStore,
                        wasVerified |-> e \in verified,
                        matched |-> FALSE, old |-> Hash(p), res |-> ResetNoPending]
            /\ UNCHANGED inflight
       ELSE /\ Suspend([op |-> "reset", pc |-> "hashed", email |-> e, password |-> p,
                        pending |-> e \in DOMAIN otpStore,
                        wasVerified |-> e \in verified,
                        seen |-> OtpGet(otpStore, e),
                        matched |-> FALSE, old |-> Hash(p)])
            /\ last' = Awaiting
    /\ UNCHANGED <<users, nextId, otpStore, verified>>

\* the digest is there: User.updateOne
ResetUpdate(s) ==
    /\ inflight[s].op = "reset"
    /\ inflight[s].pc = "hashed"
    /\ LET e == inflight[s].email
           hit == FindByEmail(users, e)
       IN  /\ users' = UpdatePasswordByEmail(users, e, Hash(inflight[s].password))
           /\ Resume(s, [inflight[s] EXCEPT
                            !.pc = "updated",
                            !.matched = hit # {},
                            !.old = IF hit = {} THEN @
                                    ELSE (CHOOSE u \in hit : TRUE).password])
    /\ last' = Awaiting
    /\ UNCHANGED <<nextId, otpStore, verified>>

\* the update is acknowledged: delete otpStore[email], redirect
ResetFinish(s) ==
    /\ inflight[s].op = "reset"
    /\ inflight[s].pc = "updated"
    /\ otpStore' = OtpDelete(otpStore, inflight[s].email)
    /\ verified' = verified \ {inflight[s].email}
    /\ last' = [op |-> "reset", email |-> inflight[s].email,
                password |-> inflight[s].password,
                pending |-> inflight[s].pending,
                wasVerified |-> inflight[s].wasVerified,
                matched |-> inflight[s].matched, old |-> inflight[s].old,
                res |-> ResetOk]
    /\ Resume(s, Idle)
    /\ UNCHANGED <<users, nextId>>

---------------------------------------------------------------------------
(* Specifications *)

\* the steps of the service while at most limit handlers are suspended, the
\* requests drawn from the sets of in
Step(limit, in) ==
    \/ \E b \in in.bodies : RegisterBegin(limit, b)
    \/ \E s \in Slots : RegisterFinish(s)
    \/ \E e \in in.emails, p \in in.passwords : Login(limit, e, p)
    \/ \E id \in in.ids, b \in in.updates : UpdateUser(limit, id, b)
    \/ \E id \in in.ids : DeleteUser(limit, id)
    \/ \E e \in in.otpEmails : ForgotBegin(limit, e)
    \/ \E s \in Slots, c \in in.codes : ForgotIssue(s, c)
    \/ \E s \in Slots : ForgotMailed(s)
    \/ \E s \in Slots, o \in in.outcomes : ForgotMailFailed(s, o)
    \/ \E e \in in.otpEmails, otp \in in.otps : VerifyOtp(limit, e, otp)
    \/ \E e \in in.otpEmails, p \in in.newPasswords : ResetBegin(limit, e, p)
    \/ \E s \in Slots : ResetUpdate(s)
    \/ \E s \in Slots : ResetFinish(s)
    \/ ListUsers(limit)
    \/ \E e \in in.verifyEmails, ph \in in.verifyPhones : VerifyUser(limit, e, ph)

\* the requests of the recovery flow in full, over two accounts
RecoveryRequests ==
    [bodies |-> {Body(NameBob, EmailA, PwA, Phone1, Dev),
                 Body(NameAmy, EmailB, PwAPadded, Phone2, Dev)},
     emails |-> {EmailA, EmailAUpper}, passwords |-> {PwA, PwAPadded, PwB},
     updates |-> UpdateBodies, ids |-> {1},
     otpEmails |-> OtpEmails, codes |-> Codes, otps |-> SubmittedOtps,
     newPasswords |-> NewPasswords, outcomes |-> RejectionOutcomes,
     verifyEmails |-> {EmailA}, verifyPhones |-> {<<>>}]

\* one request at a time, each run to its response
Next == Step(1, RecoveryRequests)

Spec == Init /\ [][Next]_vars

\* the requests on accounts in full, beside one recovery flow
AccountRequests ==
    [bodies |-> RegisterBodies,
     emails |-> Emails, passwords |-> Passwords,
     updates |-> UpdateBodies, ids |-> Ids,
     otpEmails |-> {EmailA}, codes |-> {OtpBase}, otps |-> {JsString(OtpBase)},
     newPasswords |-> {PwB}, outcomes |-> {NoResponse},
     verifyEmails |-> VerifyEmails, verifyPhones |-> VerifyPhones]

NextAccounts == Step(1, AccountRequests)

SpecAccounts == Init /\ [][NextAccounts]_vars

\* the requests that are let to overlap
ConcRequests ==
    [bodies |-> {Body(NameBob, EmailA, PwA, Phone1, Dev),
                 Body(NameAmy, EmailB, PwB, Phone1, Dev)},
     emails |-> {EmailA}, passwords |-> {PwA, PwB},
     updates |-> UpdateBodies, ids |-> {1},
     otpEmails |-> {EmailA}, codes |-> Codes, otps |-> {JsString(OtpBase)},
     newPasswords |-> {PwB}, outcomes |-> {NoResponse},
     verifyEmails |-> {EmailA}, verifyPhones |-> {<<>>}]

\* requests interleave at their awaits
NextConc == Step(MaxInflight, ConcRequests)

SpecConc == Init /\ [][NextConc]_vars

---------------------------------------------------------------------------
(* Properties *)

\* the step in which the register request of slot s answers
RegisterFinishes(s) ==
    /\ inflight[s].op = "register"
    /\ inflight'[s].op = "idle"
    /\ last'.op = "register"

\* no document of us has the email, username or phone of body b, as typed
RawDistinct(us, b) ==
    \A u \in us : u.email # b.email /\ u.username # b.username /\ u.phone # b.phone

\* the same, each value compared as the schema's setters store it
StoredDistinct(us, b) ==
    \A u \in us : /\ u.email # Lower(Trim(b.email))
                  /\ u.username # Lower(Trim(b.username))
                  /\ u.phone # Trim(b.phone)

\* what a registration of b that succeeds leaves behind
Registered(s) ==
    /\ last'.res = RegisterOk
    /\ \E u \in users' \ users : u.email = Lower(Trim(inflight[s].raw.email))
    /\ LoginResponse(users', inflight[s].raw.email, inflight[s].raw.password) = LoginOk

(* C1: after a request for an existing user and an accepted verify, a reset
   that succeeds lets login(email, newPw) succeed and makes login with the
   former password, when it differs from newPw, fail as invalid credentials. *)
ResetThenLoginWithNewPassword ==
    (last.op = "reset" /\ last.res = ResetOk /\ last.wasVerified /\ last.matched)
        => /\ LoginResponse(users, last.email, last.password) = LoginOk
           /\ last.old.plain # last.password
                => LoginResponse(users, last.email, last.old.plain) = LoginInvalid

(* C2: a reset for an email with no pending entry at the time of the call
   answers NoPendingRequest and changes neither the users nor the registry. *)
ResetWithoutEntryRefused ==
    [][(last'.op = "reset" /\ ~last'.pending)
          => (last'.res = ResetNoPending /\ users' = users /\ otpStore' = otpStore)]_vars

(* C3: verify-otp answers ok exactly when an entry is pending for the email
   and its code is the submitted value; without an entry every submitted
   value, an absent one included, is answered InvalidCode. *)
VerifyOkIffPendingCodeSubmitted ==
    last.op = "verify"
        => (last.res = VerifyOk
              <=> (last.email \in DOMAIN otpStore /\ otpStore[last.email] = last.otp))

(* C4: once a request for an existing user has succeeded, verify-otp accepts
   the issued code and answers InvalidCode to every other 6-digit string. *)
IssuedCodeAloneVerifies ==
    /\ (last.op = "forgot" /\ last.res = ForgotOk)
          => \A c \in Codes :
                VerifyResponse(otpStore, last.email, JsString(c))
                    = IF JsString(c) = last.otp THEN VerifyOk ELSE VerifyInvalid
    /\ (last.op = "verify" /\ last.email \in DOMAIN otpStore /\ last.otp.t = "string")
          => /\ otpStore[last.email] \in {NumberToString(c) : c \in Codes}
             /\ last.res = IF last.otp = otpStore[last.email] THEN VerifyOk
                           ELSE VerifyInvalid

IssuedCodeAccepted ==
    /\ last.op = "verify"
    /\ last.email \in DOMAIN otpStore
    /\ last.res = VerifyOk

(* C5: the registry holds at most one live code per email: a request
   overwrites the entry of its email, so only the latest issued code verifies
   and a replaced code that differs from it is answered InvalidCode. *)
LatestCodeAloneLive ==
    /\ \A e \in OtpEmails :
          Cardinality({x \in SubmittedOtps :
                          VerifyResponse(otpStore, e, x) = VerifyOk}) <= 1
    /\ last.op = "issue"
          => /\ VerifyResponse(otpStore, last.email, last.otp) = VerifyOk
             /\ last.replaced # last.otp
                  => VerifyResponse(otpStore, last.email, last.replaced) = VerifyInvalid

SecondCodeIssued ==
    /\ last.op = "issue"
    /\ last.replaced.t = "string"
    /\ last.replaced # last.otp

(* C6, as stated: a registration with valid fields whose email, username and
   phone differ, as typed, from those of every stored user succeeds, creates
   the record and lets a login with the same email and password succeed. *)
RegisterRawDistinctSucceeds ==
    [][\A s \in Slots :
          (RegisterFinishes(s) /\ RegisterErrors(inflight[s].raw) = {}
              /\ RawDistinct(users, inflight[s].raw))
            => Registered(s)]_vars

(* C6, amended: the same for a registration whose email, username and phone
   differ from those of every stored user once trimmed and, for email and
   username, lower-cased. *)
RegisterStoredDistinctSucceeds ==
    [][\A s \in Slots :
          (RegisterFinishes(s) /\ RegisterErrors(inflight[s].raw) = {}
              /\ StoredDistinct(users, inflight[s].raw))
            => Registered(s)]_vars

SecondUserRegistered ==
    /\ last.op = "register"
    /\ last.res = RegisterOk
    /\ Cardinality(users) = 2
    /\ LoginResponse(users, last.body.email, last.body.password) = LoginOk

(* C7: a registration, valid otherwise, with the email of an existing user,
   whatever its username, answers DuplicateKey and leaves the users as they
   were. *)
RegisterExistingEmailRefused ==
    [][\A s \in Slots :
          (RegisterFinishes(s)
              /\ \E u \in users : u.email = CastEmail(inflight[s].raw.email))
            => (last'.res = RegisterDuplicate /\ users' = users)]_vars

ExistingEmailOtherNameRefused ==
    /\ last.op = "register"
    /\ last.res = RegisterDuplicate
    /\ \E u \in users : /\ u.email = CastEmail(last.body.email)
                        /\ u.username # Lower(Trim(last.body.username))

(* C8: for a well-formed email and password, a login that fails answers the
   same 400 "Email or password is incorrect!" whether the email has no user
   or the password is wrong, never a 404; and a login changes neither the
   users nor the registry. *)
LoginFailuresAlikeAndPure ==
    [][last'.op = "login"
          => /\ users' = users /\ otpStore' = otpStore /\ nextId' = nextId
             /\ last'.res.status # 404
             /\ (/\ IsEmail(Trim(last'.email))
                 /\ Len(Trim(last'.password)) >= MinPasswordLen
                 /\ last'.res # LoginOk)
                  => /\ last'.res = LoginInvalid
                     /\ \A e \in Emails :
                           (IsEmail(Trim(e))
                              /\ LoginResponse(users, e, last'.password) # LoginOk)
                             => LoginResponse(users, e, last'.password) = last'.res]_vars

WrongPasswordRefused ==
    /\ last.op = "login"
    /\ last.res = LoginInvalid
    /\ FindByEmail(users, last.email) # {}
    /\ \E e \in Emails : IsEmail(Trim(e)) /\ FindByEmail(users, e) = {}

(* C9: no two user records share an email or a phone, whatever registrations,
   updates, deletes and resets ran and however registrations interleaved. *)
EmailAndPhoneUnique ==
    \A u \in users, v \in users :
        u # v => (u.email # v.email /\ u.phone # v.phone)

(* C10: when the mail of a request for an existing user is not delivered, the
   request is answered with an error result, and the code issued before the
   attempt is still in the registry. *)
MailFailureAnsweredCodeKept ==
    (last.op = "forgot" /\ last.res \notin {ForgotOk, ForgotNotFound})
        => /\ last.res = ErrorPage
           /\ last.email \in DOMAIN otpStore
           /\ otpStore[last.email] = last.otp

\* the step in which the forgot-password request of slot s acts on its lookup
ForgotActs(s) ==
    /\ inflight[s].op = "forgot"
    /\ inflight[s].pc = "found"
    /\ inflight'[s].op = "idle" \/ inflight'[s].pc = "mail"

(* C11: a forgot-password request for an email no user has is answered
   NotFound, leaves the registry as it was and hands nothing to the mailer
   (the handler ends without reaching the await of sendMail). *)
ForgotUnknownEmailRefused ==
    [][\A s \in Slots :
          (ForgotActs(s)
              /\ \A u \in users : u.email # Lower(Trim(inflight[s].email)))
            => /\ last'.op = "forgot"
               /\ last'.res = ForgotNotFound
               /\ otpStore' = otpStore
               /\ inflight'[s].op = "idle"]_vars

UnknownEmailRefusedBesideUsers ==
    /\ last.op = "forgot"
    /\ last.res = ForgotNotFound
    /\ users # {}
    /\ \A u \in users : u.email # Lower(Trim(last.email))

\* the step in which the reset-password request of slot s writes the digest
ResetWrites(s) ==
    /\ inflight[s].op = "reset"
    /\ inflight[s].pc = "hashed"
    /\ inflight'[s].op = "reset"
    /\ inflight'[s].pc = "updated"

(* C12: the password of every stored user is a bcrypt digest of a plaintext,
   never the plaintext; a stored password changes only in the update of a
   reset-password request, and to the digest of the submitted password. *)
PasswordsAlwaysHashed ==
    [][/\ \A u \in users' : u.password.alg = "bcrypt" /\ u.password = Hash(u.password.plain)
       /\ \A u \in users, v \in users' :
             (u.id = v.id /\ u.password # v.password)
               => \E s \in Slots : /\ ResetWrites(s)
                                   /\ v.password = Hash(inflight[s].password)]_vars

ResetStoredDigest ==
    /\ last.op = "reset"
    /\ last.res = ResetOk
    /\ last.matched
    /\ \E u \in users : u.password = Hash(last.password) /\ u.password # last.old

(* C13: no answer of GET /users, PUT /users/:id or POST /users/login carries
   the password field of a user: the listing holds every stored user, the
   update's answer the updated user, each without it, and a login's answer
   holds no user at all. *)
AnswersCarryNoPassword ==
    last.op \in {"list", "update", "login"}
      => /\ \A d \in last.data : "password" \notin DOMAIN d
         /\ last.op = "list" => {d.id : d \in last.data} = {u.id : u \in users}
         /\ (last.op = "update" /\ last.res = UpdateOk)
               => {d.id : d \in last.data} = {last.id}
         /\ last.op = "login" => last.data = {}

ListedTwoUsers ==
    /\ last.op = "list"
    /\ Cardinality(last.data) = 2
    /\ \A u \in users : u.password.plain # <<>>

(* C14: every stored user has a username of at least 3 characters, a phone of
   at least 10 characters and a non-empty profession. *)
FieldConstraintsHold ==
    \A u \in users : /\ Len(u.username) >= MinUsernameLen
                     /\ Len(u.phone) >= MinPhoneLen
                     /\ u.profession # <<>>

(* C15: every reset-password that succeeds on a pending entry comes after a
   verify-otp that was answered ok for that email against that entry. *)
ResetPrecededByVerify ==
    (last.op = "reset" /\ last.res = ResetOk /\ last.pending) => last.wasVerified

\* the step in which the reset-password request of slot s consumes and answers
ResetConsumes(s) ==
    /\ inflight[s].op = "reset"
    /\ inflight[s].pc = "updated"
    /\ inflight'[s].op = "idle"

(* C16: under interleaving, the entry a reset-password consumes is the one its
   guard read: it is neither gone already, consumed by another reset that
   the same code let through, nor a code issued since. *)
ResetConsumesCodeItRead ==
    [][\A s \in Slots :
          ResetConsumes(s)
            => OtpGet(otpStore, inflight[s].email) = inflight[s].seen]_vars

(* C17: verify-otp changes neither the registry nor the users, and a step of
   forgot-password, verify-otp or reset-password for one email leaves the
   entry of every other email as it was. *)
OtpStepsKeepOtherEntries ==
    [][/\ last'.op = "verify" => (otpStore' = otpStore /\ users' = users)
       /\ last'.op \in {"issue", "forgot", "verify", "reset"}
            => \A k \in DOMAIN otpStore :
                  k # last'.email
                    => (k \in DOMAIN otpStore' /\ otpStore'[k] = otpStore[k])]_vars

(* C18: PUT /users/:id changes the username, phone and profession of the user
   with that id and nothing else: its email and password, the other users and
   the registry stay, and without such a user it answers NotFound and nothing
   changes.  DELETE /users/:id removes that user alone, or answers NotFound
   and nothing changes. *)
UpdateAndDeleteFrame ==
    [][/\ last'.op = "update"
            => LET hit == {u \in users : u.id = last'.id}
                   b == last'.body
               IN  /\ otpStore' = otpStore
                   /\ {u \in users : u.id # last'.id} = {v \in users' : v.id # last'.id}
                   /\ Cardinality(users') = Cardinality(users)
                   /\ hit = {} <=> last'.res = UserNotFound
                   /\ \A u \in hit :
                         \E v \in users' :
                             /\ v.id = u.id
                             /\ v.email = u.email
                             /\ v.password = u.password
                             /\ IF last'.res = UpdateOk
                                THEN /\ v.username = Lower(Trim(b.username))
                                     /\ v.phone = Trim(b.phone)
                                     /\ v.profession = Trim(b.profession)
                                ELSE v = u
       /\ last'.op = "delete"
            => /\ otpStore' = otpStore
               /\ users' = {u \in users : u.id # last'.id}
               /\ last'.res = UserNotFound <=> (\A u \in users : u.id # last'.id)
               /\ last'.res \in {UserNotFound, DeleteOk}]_vars

UpdatedOneOfTwo ==
    /\ last.op = "update"
    /\ last.res = UpdateOk
    /\ Cardinality(users) = 2
    /\ \E u \in users : u.id = last.id /\ u.username = NameAl /\ u.email # <<>>

(* C19: every pending entry of the registry is keyed by the email of a stored
   user, and a reset-password that succeeds on a pending entry has changed
   the password of a stored user. *)
PendingEntriesHaveUsers ==
    /\ \A e \in DOMAIN otpStore : FindByEmail(users, e) # {}
    /\ (last.op = "reset" /\ last.res = ResetOk /\ last.pending) => last.matched

(* C20: POST /verify-user answers found exactly when a field is supplied and
   one stored user has every supplied field (the email as the store holds it,
   trimmed and lower-cased; the phone trimmed), and it changes neither the
   users nor the registry. *)
VerifyUserFoundIffMatch ==
    [][last'.op = "verifyUser"
         => LET e == last'.email
                ph == last'.phone
            IN  /\ users' = users
                /\ otpStore' = otpStore
                /\ last'.res \in {VerifyUserFound, VerifyUserNotFound}
                /\ last'.res = VerifyUserFound
                     <=> /\ e # <<>> \/ ph # <<>>
                         /\ \E u \in users :
                               /\ e # <<>> => u.email = Lower(Trim(e))
                               /\ ph # <<>> => u.phone = Trim(ph)]_vars

EmailAndPhoneOfDifferentUsers ==
    /\ last.op = "verifyUser"
    /\ last.res = VerifyUserNotFound
    /\ \E u \in users : u.email = Lower(Trim(last.email))
    /\ \E u \in users : u.phone = Trim(last.phone)

===========================================================================
